---- MODULE Spec2Model ----
(***************************************************************************)
(* Royal Sanction Watch: the entity resolution engine of                   *)
(* src/sanction_checker.py (SanctionChecker and OpenSanctionsAPI).         *)
(*                                                                         *)
(* A text is a sequence of one-character strings, so that lower-casing,    *)
(* stripping, the regular expression of _normalize_text, str.split and the *)
(* substring test `in` are computed character by character.               *)
(* A confidence is a fraction <<n, d>> (d > 0), compared by cross          *)
(* multiplication: the thresholds 0.9 and 0.7 are 9/10 and 7/10.           *)
(* The fields source_url and last_updated of SanctionMatch are read by no  *)
(* operation of the engine and are left out of the match records.          *)
(***************************************************************************)
EXTENDS Integers, Sequences, FiniteSets, TLC

VARIABLES
    call,   \* the operation called and its arguments
    net,    \* the scripted behaviour of the remote endpoints during the call
    ret,    \* what the call returned
    pc,     \* "idle" before the call, "returned" or "raised" after it
    log,    \* the requests issued and the sleeps taken by the call, in order
    sent,   \* the queries posted to the match endpoint, by query id
    config, \* the class Config, as the environment made it at import
    checker,\* the fields __init__ gave the SanctionChecker
    now,    \* the clock, in seconds
    bulk_check_button,  \* the state of the GUI's "Start Bulk Check" button
    stop_button,        \* the state of the GUI's "Stop" button
    stop_requested,     \* the GUI's attribute stop_requested (FALSE while unset)
    workers,            \* the bulk check threads the GUI has started
    update_queue        \* the GUI's queue of updates from its threads

\* the engine and the GUI in front of it
enginevars == <<call, net, ret, pc, log, sent, config, checker, now>>

guivars == <<bulk_check_button, stop_button, stop_requested, workers, update_queue>>

vars == <<enginevars, guivars>>

\* the GUI as setup_gui leaves it
GuiReady ==
    /\ bulk_check_button = "normal"
    /\ stop_button = "disabled"
    /\ stop_requested = FALSE
    /\ workers = <<>>
    /\ update_queue = <<>>

----------------------------------------------------------------------------
(* Characters and texts *)

LowerLetters == {"a", "b", "c", "d", "e", "f", "g", "h", "i", "j", "k", "l", "m",
                 "n", "o", "p", "q", "r", "s", "t", "u", "v", "w", "x", "y", "z"}

UpperLetters == {"A", "B", "C", "D", "E", "F", "G", "H", "I", "J", "K", "L", "M",
                 "N", "O", "P", "Q", "R", "S", "T", "U", "V", "W", "X", "Y", "Z"}

Digits == {"0", "1", "2", "3", "4", "5", "6", "7", "8", "9"}

Whitespace == {" "}

LowerOf == ("A" :> "a") @@ ("B" :> "b") @@ ("C" :> "c") @@ ("D" :> "d") @@ ("E" :> "e")
        @@ ("F" :> "f") @@ ("G" :> "g") @@ ("H" :> "h") @@ ("I" :> "i") @@ ("J" :> "j")
        @@ ("K" :> "k") @@ ("L" :> "l") @@ ("M" :> "m") @@ ("N" :> "n") @@ ("O" :> "o")
        @@ ("P" :> "p") @@ ("Q" :> "q") @@ ("R" :> "r") @@ ("S" :> "s") @@ ("T" :> "t")
        @@ ("U" :> "u") @@ ("V" :> "v") @@ ("W" :> "w") @@ ("X" :> "x") @@ ("Y" :> "y")
        @@ ("Z" :> "z")

\* str.lower, one character
LowerChar(c) == IF c \in UpperLetters THEN LowerOf[c] ELSE c

\* str.lower
Lower(s) == [i \in 1..Len(s) |-> LowerChar(s[i])]

\* the class \s of the regular expression, and the characters str.strip and
\* str.split treat as blank
IsSpace(c) == c \in Whitespace

\* the class \w of the regular expression: letters, digits and the underscore
IsWord(c) == c \in LowerLetters \cup UpperLetters \cup Digits \cup {"_"}

\* str.isdigit, one character
IsDigit(c) == c \in Digits

\* str.strip
Strip(s) ==
    LET keep == {i \in 1..Len(s) : ~IsSpace(s[i])}
    IN  IF keep = {} THEN <<>>
        ELSE LET first == CHOOSE i \in keep : \A j \in keep : i <= j
                 last  == CHOOSE i \in keep : \A j \in keep : j <= i
             IN  SubSeq(s, first, last)

\* re.sub(r'[^\w\s]', '', s)
KeepWordOrSpace(c) == IsWord(c) \/ IsSpace(c)

RemovePunctuation(s) == SelectSeq(s, KeepWordOrSpace)

\* str.split(): the maximal runs of non-blank characters, here as the set
\* the callers make of them
SplitSet(s) ==
    {SubSeq(s, i, j) : <<i, j>> \in
        {p \in (1..Len(s)) \X (1..Len(s)) :
            /\ p[1] <= p[2]
            /\ \A k \in p[1]..p[2] : ~IsSpace(s[k])
            /\ (p[1] = 1 \/ IsSpace(s[p[1] - 1]))
            /\ (p[2] = Len(s) \/ IsSpace(s[p[2] + 1]))}}

\* len(s.split()): the number of those runs
SplitCount(s) ==
    Cardinality({i \in 1..Len(s) : ~IsSpace(s[i]) /\ (i = 1 \/ IsSpace(s[i - 1]))})

\* a in b, for two texts
Contains(a, b) ==
    /\ Len(a) <= Len(b)
    /\ \E i \in 0..(Len(b) - Len(a)) : SubSeq(b, i + 1, i + Len(a)) = a

\* a pandas missing value (pd.isna): no text, since no character is "NaN"
NaN == <<"NaN">>

----------------------------------------------------------------------------
(* Confidence values *)

Zero == <<0, 1>>

One == <<1, 1>>

\* c >= n/d
AtLeast(c, n, d) == c[1] * d >= n * c[2]

\* c > n/d
MoreThan(c, n, d) == c[1] * d > n * c[2]

\* c < n/d
LessThan(c, n, d) == c[1] * d < n * c[2]

\* c1 = c2 as numbers
SameValue(c1, c2) == c1[1] * c2[2] = c2[1] * c1[2]

----------------------------------------------------------------------------
(* Config and SanctionChecker.__init__ *)

\* the attributes of Config the engine is configured by, with the defaults that
\* os.getenv falls back to
DefaultConfig ==
    [CACHE_DURATION_HOURS |-> 24, REQUEST_DELAY_SECONDS |-> 1, MAX_RETRIES |-> 3]

\* Config.validate_config, over the settings kept here: it prints what it
\* finds and answers False, and raises nothing. The engine never calls it.
validate_config(cfg) ==
    /\ cfg.CACHE_DURATION_HOURS > 0
    /\ cfg.REQUEST_DELAY_SECONDS >= 0
    /\ cfg.MAX_RETRIES >= 0

\* an argument left at its default None, and one given
None == [given |-> FALSE]

Given(v) == [given |-> TRUE, value |-> v]

\* `x or y`, x an int or None: None and 0 are falsy
Or(x, y) == IF x.given /\ x.value # 0 THEN x.value ELSE y

\* the fields of the engine that depend on the arguments; cache_duration is
\* timedelta(hours=...), here in seconds. No argument is validated.
__init__(cache_duration_hours, cfg) ==
    [cache_duration |-> 3600 * Or(cache_duration_hours, cfg.CACHE_DURATION_HOURS)]

----------------------------------------------------------------------------
(* SanctionChecker: the pure helpers *)

_normalize_text(text) ==
    IF text = <<>> THEN <<>>
    ELSE RemovePunctuation(Strip(Lower(text)))

\* a plausible slip: no shortcut for equal normalized texts
M_calculate_similarity_no_shortcut(text1, text2) ==
    IF text1 = <<>> \/ text2 = <<>> THEN <<0, 1>>
    ELSE LET words1 == SplitSet(_normalize_text(text1))
             words2 == SplitSet(_normalize_text(text2))
         IN  IF words1 = {} \/ words2 = {} THEN <<0, 1>>
             ELSE <<Cardinality(words1 \cap words2), Cardinality(words1 \cup words2)>>

\* a plausible slip: the shared words over the words of the first text
M_calculate_similarity_over_first(text1, text2) ==
    IF text1 = <<>> \/ text2 = <<>> THEN <<0, 1>>
    ELSE LET norm1 == _normalize_text(text1)
             norm2 == _normalize_text(text2)
             words1 == SplitSet(norm1)
             words2 == SplitSet(norm2)
         IN  IF norm1 = norm2 THEN <<1, 1>>
             ELSE IF words1 = {} \/ words2 = {} THEN <<0, 1>>
             ELSE <<Cardinality(words1 \cap words2), Cardinality(words1)>>

_calculate_similarity(text1, text2) ==
    IF text1 = <<>> \/ text2 = <<>> THEN Zero
    ELSE LET norm1 == _normalize_text(text1)
             norm2 == _normalize_text(text2)
             words1 == SplitSet(norm1)
             words2 == SplitSet(norm2)
         IN  IF norm1 = norm2 THEN One
             ELSE IF words1 = {} \/ words2 = {} THEN Zero
             ELSE <<Cardinality(words1 \cap words2), Cardinality(words1 \cup words2)>>

vessel_indicators ==
    << <<"v", "e", "s", "s", "e", "l">>, <<"s", "h", "i", "p">>, <<"b", "o", "a", "t">>,
       <<"t", "a", "n", "k", "e", "r">>, <<"c", "a", "r", "g", "o">>, <<"i", "m", "o">>,
       <<"m", "m", "s", "i">> >>

company_indicators ==
    << <<"l", "t", "d">>, <<"i", "n", "c">>, <<"c", "o", "r", "p">>,
       <<"c", "o", "m", "p", "a", "n", "y">>, <<"c", "o", ".">>, <<"l", "l", "c">>,
       <<"p", "l", "c">> >>

\* a plausible slip: a name that no rule matches taken for a person
M_detect_entity_type_fallback_person(entity_name) ==
    LET name_lower == Lower(entity_name)
    IN  IF \E k \in DOMAIN vessel_indicators : Contains(vessel_indicators[k], name_lower)
        THEN "vessel"
        ELSE IF \E k \in DOMAIN company_indicators :
                    Contains(company_indicators[k], name_lower)
        THEN "company"
        ELSE "person"

\* a plausible slip: the company indicators tried before the vessel indicators
M_detect_entity_type_company_first(entity_name) ==
    LET name_lower == Lower(entity_name)
    IN  IF \E k \in DOMAIN company_indicators :
                Contains(company_indicators[k], name_lower)
        THEN "company"
        ELSE IF \E k \in DOMAIN vessel_indicators :
                    Contains(vessel_indicators[k], name_lower)
        THEN "vessel"
        ELSE IF /\ SplitCount(entity_name) >= 2
                /\ ~\E i \in 1..Len(entity_name) : IsDigit(entity_name[i])
        THEN "person"
        ELSE "vessel"

_detect_entity_type(entity_name) ==
    LET name_lower == Lower(entity_name)
    IN  IF \E k \in DOMAIN vessel_indicators : Contains(vessel_indicators[k], name_lower)
        THEN "vessel"
        ELSE IF \E k \in DOMAIN company_indicators :
                    Contains(company_indicators[k], name_lower)
        THEN "company"
        ELSE IF /\ SplitCount(entity_name) >= 2
                /\ ~\E i \in 1..Len(entity_name) : IsDigit(entity_name[i])
        THEN "person"
        ELSE "vessel"

_map_entity_type_to_schema(entity_type) ==
    CASE entity_type = "vessel" -> "Vessel"
      [] entity_type = "person" -> "Person"
      [] entity_type = "company" -> "Company"
      [] entity_type = "organization" -> "Organization"
      [] OTHER -> "Thing"

_create_opensanctions_entity(entity_name, entity_type) ==
    [schema |-> _map_entity_type_to_schema(entity_type),
     properties |-> [name |-> <<entity_name>>]]

SanctionMatch(entity_name, entity_type, sanction_list, match_type, confidence, details) ==
    [entity_name |-> entity_name, entity_type |-> entity_type,
     sanction_list |-> sanction_list, match_type |-> match_type,
     confidence |-> confidence, details |-> details]

----------------------------------------------------------------------------
(* OpenSanctionsAPI *)

\* What a call hands back: a value, or an exception that leaves the call.
Returned(v) == [raised |-> FALSE, value |-> v]

Raised == [raised |-> TRUE]

\* requests' Response.json() raises requests.exceptions.JSONDecodeError, a
\* RequestException, from requests 2.27 on and a plain ValueError before: a body
\* that is no JSON is absorbed by `except RequestException` in the one build and
\* leaves the method in the other.
JsonErrorAbsorbed(build) == build = "json_error_is_request_exception"

\* {"results": [], "total": {"value": 0}}
NoResults == [results |-> <<>>, total |-> [value |-> 0]]

\* a plausible slip: only the HTTPError handler, a request that got no response
\* leaves the method
M_search_entities_http_error_only(resp, build) ==
    CASE resp.outcome = "success" ->
            Returned([results |-> resp.results, total |-> [value |-> Len(resp.results)]])
      [] resp.outcome \in {"auth", "status"} -> Returned(NoResults)
      [] OTHER -> Raised

\* search_entities against one scripted response of the search endpoint, which
\* counts the hits it sends; the outcomes are a good response, 401, another
\* error status, no response (transport error or timeout), and a body that is
\* no JSON
search_entities(resp, build) ==
    CASE resp.outcome = "success" ->
            Returned([results |-> resp.results, total |-> [value |-> Len(resp.results)]])
      [] resp.outcome = "auth" -> Returned(NoResults)
      [] resp.outcome = "status" -> Returned(NoResults)
      [] resp.outcome \in {"transport", "timeout"} -> Returned(NoResults)
      [] resp.outcome = "parse" ->
            IF JsonErrorAbsorbed(build) THEN Returned(NoResults) ELSE Raised

\* the queries of match_entities: entity_<i> for the i-th entity handed in,
\* counted from 0
match_queries(entities) == [i \in 0..(Len(entities) - 1) |-> entities[i + 1]]

\* a plausible slip: a failed request is logged and raised again
M_match_entities_failure_raised(entities, resp, build) ==
    IF resp.outcome = "success"
    THEN Returned([q \in DOMAIN match_queries(entities) |->
            [k \in 1..Len(resp.scores[q]) |->
                [id |-> <<q, k>>, score |-> resp.scores[q][k], query_id |-> q]]])
    ELSE Raised

\* match_entities against the scripted behaviour of the match endpoint: the
\* server answers every query id it was sent, with one hit per scripted score,
\* each hit carrying the query id it answers. The value is the 'responses' of
\* the dictionary handed back.
match_entities(entities, resp, build) ==
    LET queries == match_queries(entities)
    IN  CASE resp.outcome = "success" ->
                Returned([q \in DOMAIN queries |->
                    [k \in 1..Len(resp.scores[q]) |->
                        [id |-> <<q, k>>, score |-> resp.scores[q][k], query_id |-> q]]])
          [] resp.outcome \in {"status", "auth"} -> Returned(<<>>)
          [] resp.outcome \in {"transport", "timeout"} -> Returned(<<>>)
          [] resp.outcome = "parse" ->
                IF JsonErrorAbsorbed(build) THEN Returned(<<>>) ELSE Raised

\* get_entity_details against one scripted response of the entity endpoint
get_entity_details(resp, build) ==
    CASE resp.outcome = "success" -> Returned(Given(resp.entity))
      [] resp.outcome \in {"status", "auth"} -> Returned(None)
      [] resp.outcome \in {"transport", "timeout"} -> Returned(None)
      [] resp.outcome = "parse" ->
            IF JsonErrorAbsorbed(build) THEN Returned(None) ELSE Raised

\* get_catalog against one scripted response of the catalog endpoint
get_catalog(resp, build) ==
    CASE resp.outcome = "success" -> Returned([datasets |-> resp.datasets])
      [] resp.outcome \in {"status", "auth"} -> Returned([datasets |-> <<>>])
      [] resp.outcome \in {"transport", "timeout"} -> Returned([datasets |-> <<>>])
      [] resp.outcome = "parse" ->
            IF JsonErrorAbsorbed(build) THEN Returned([datasets |-> <<>>]) ELSE Raised

----------------------------------------------------------------------------
(* SanctionChecker: building match records *)

_process_opensanctions_results(results, entity_name, entity_type) ==
    [k \in 1..Len(results) |->
        LET entity_id == results[k].id
            caption == results[k].caption
            confidence == _calculate_similarity(entity_name, caption)
            match_type == IF AtLeast(confidence, 9, 10) THEN "exact"
                          ELSE IF AtLeast(confidence, 7, 10) THEN "partial"
                          ELSE "fuzzy"
        IN  SanctionMatch(entity_name, entity_type, "OpenSanctions", match_type,
                          confidence, [entity_id |-> entity_id, caption |-> caption])]

\* the columns _search_entity looks for, by entity type
search_columns(entity_type) ==
    CASE entity_type = "vessel" -> <<"vessel_name", "name", "title", "vessel">>
      [] entity_type = "person" -> <<"name", "title", "individual", "person">>
      [] entity_type = "company" -> <<"name", "title", "entity", "company", "organization">>
      [] OTHER -> <<"name", "title">>

InColumns(columns, col) == \E k \in 1..Len(columns) : columns[k] = col

available_columns(entity_type, columns) ==
    LET wanted == search_columns(entity_type)
        found == SelectSeq(wanted, LAMBDA col : InColumns(columns, col))
    IN  IF found = <<>> THEN columns ELSE found

\* a plausible slip: the row scan without the containment test, the threshold
\* alone deciding
RECURSIVE M_scan_row_threshold_only(_, _, _, _, _, _)
M_scan_row_threshold_only(entity_name, entity_type, source, row, cols, k) ==
    IF k > Len(cols) THEN <<>>
    ELSE LET cell_value == row[cols[k]]
             similarity == _calculate_similarity(entity_name, cell_value)
         IN  IF cell_value = NaN
             THEN M_scan_row_threshold_only(entity_name, entity_type, source, row, cols, k + 1)
             ELSE IF _normalize_text(entity_name) = _normalize_text(cell_value)
             THEN <<SanctionMatch(entity_name, entity_type, source, "exact", One, row)>>
             ELSE IF MoreThan(similarity, 7, 10)
             THEN <<SanctionMatch(entity_name, entity_type, source, "partial",
                                  similarity, row)>>
             ELSE M_scan_row_threshold_only(entity_name, entity_type, source, row, cols,
                                            k + 1)

\* a plausible slip: the row scan without its breaks, every matching column
\* of a row giving a record
RECURSIVE M_scan_row_no_break(_, _, _, _, _, _)
M_scan_row_no_break(entity_name, entity_type, source, row, cols, k) ==
    IF k > Len(cols) THEN <<>>
    ELSE LET cell_value == row[cols[k]]
             similarity == _calculate_similarity(entity_name, cell_value)
         IN  (IF cell_value = NaN THEN <<>>
              ELSE IF _normalize_text(entity_name) = _normalize_text(cell_value)
              THEN <<SanctionMatch(entity_name, entity_type, source, "exact", One, row)>>
              ELSE IF /\ \/ Contains(_normalize_text(entity_name), _normalize_text(cell_value))
                         \/ Contains(_normalize_text(cell_value), _normalize_text(entity_name))
                      /\ MoreThan(similarity, 7, 10)
              THEN <<SanctionMatch(entity_name, entity_type, source, "partial",
                                   similarity, row)>>
              ELSE <<>>)
             \o M_scan_row_no_break(entity_name, entity_type, source, row, cols, k + 1)

\* the inner loop of _search_entity over the columns of one row, from column k on:
\* the records the row contributes (none or one, the loop breaks at the first)
RECURSIVE scan_row(_, _, _, _, _, _)
scan_row(entity_name, entity_type, source, row, cols, k) ==
    IF k > Len(cols) THEN <<>>
    ELSE LET cell_value == row[cols[k]]
             normalized_name == _normalize_text(entity_name)
             normalized_cell == _normalize_text(cell_value)
             similarity == _calculate_similarity(entity_name, cell_value)
         IN  IF cell_value = NaN
             THEN scan_row(entity_name, entity_type, source, row, cols, k + 1)
             ELSE IF normalized_name = normalized_cell
             THEN <<SanctionMatch(entity_name, entity_type, source, "exact", One, row)>>
             ELSE IF /\ \/ Contains(normalized_name, normalized_cell)
                        \/ Contains(normalized_cell, normalized_name)
                     /\ MoreThan(similarity, 7, 10)
             THEN <<SanctionMatch(entity_name, entity_type, source, "partial",
                                  similarity, row)>>
             ELSE scan_row(entity_name, entity_type, source, row, cols, k + 1)

RECURSIVE scan_rows(_, _, _, _, _, _)
scan_rows(entity_name, entity_type, source, rows, cols, r) ==
    IF r > Len(rows) THEN <<>>
    ELSE scan_row(entity_name, entity_type, source, rows[r], cols, 1)
         \o scan_rows(entity_name, entity_type, source, rows, cols, r + 1)

_search_entity(entity_name, entity_type, sanction_data, source) ==
    scan_rows(entity_name, entity_type, source, sanction_data.rows,
              available_columns(entity_type, sanction_data.columns), 1)

----------------------------------------------------------------------------
(* SanctionChecker: the legacy sources *)

\* pd.DataFrame()
EmptyFrame == [columns |-> <<>>, rows |-> <<>>]

\* DataFrame.empty
IsEmptyFrame(df) == Len(df.columns) = 0 \/ Len(df.rows) = 0

Str_vessel == <<"v", "e", "s", "s", "e", "l">>

Str_person == <<"p", "e", "r", "s", "o", "n">>

Str_UN == <<"U", "N">>

\* Series.str.contains('vessel', case=False, na=False), one cell
TypeIsVessel(cell) == cell # NaN /\ Contains(Str_vessel, Lower(cell))

\* A scripted response of a legacy source: its outcome, and in `data` what the
\* source-specific parser makes of the body (for UN, the FIRST_NAME texts of the
\* INDIVIDUAL elements, <<>> for one without text). Each fetch wraps its request
\* and its parsing in `except Exception` and hands back a frame on every path.
_fetch_ofac_data(resp) ==
    IF resp.outcome = "success"
    THEN IF InColumns(resp.data.columns, "type")
         THEN Returned([columns |-> resp.data.columns,
                        rows |-> SelectSeq(resp.data.rows,
                                           LAMBDA row : TypeIsVessel(row["type"]))])
         ELSE Returned(resp.data)
    ELSE Returned(EmptyFrame)

\* a plausible slip: the placeholder filled in, the body read as the OFAC one
M_fetch_uk_data_body_read(resp) ==
    IF resp.outcome = "success" THEN Returned(resp.data) ELSE Returned(EmptyFrame)

\* the body is never parsed: every good response gives the placeholder frame
_fetch_uk_data(resp) ==
    IF resp.outcome \in {"success", "parse"}
    THEN Returned([columns |-> <<"name", "type", "country", "reason", "date_added">>,
                   rows |-> <<>>])
    ELSE Returned(EmptyFrame)

\* a plausible slip: no raise_for_status, the body of a failed response is parsed
M_fetch_eu_data_any_status(resp) == Returned(resp.data)

_fetch_eu_data(resp) ==
    IF resp.outcome = "success" THEN Returned(resp.data) ELSE Returned(EmptyFrame)

_fetch_un_data(resp) ==
    IF resp.outcome = "success"
    THEN LET named == SelectSeq(resp.data, LAMBDA name : name # <<>>)
         IN  IF named = <<>> THEN Returned(EmptyFrame)
             ELSE Returned([columns |-> <<"name", "type", "source">>,
                            rows |-> [k \in 1..Len(named) |->
                                [name |-> named[k], type |-> Str_person,
                                 source |-> Str_UN]]])
    ELSE Returned(EmptyFrame)

\* a plausible slip: the UN list moved to the front of the loop
M_LegacySources_un_first == <<"UN", "OFAC", "UK", "EU">>

LegacySources == <<"OFAC", "UK", "EU", "UN">>

fetch_source(source, resp) ==
    CASE source = "OFAC" -> _fetch_ofac_data(resp)
      [] source = "UK" -> _fetch_uk_data(resp)
      [] source = "EU" -> _fetch_eu_data(resp)
      [] source = "UN" -> _fetch_un_data(resp)

----------------------------------------------------------------------------
(* SanctionChecker.check_single_entity *)

\* "Remove duplicates based on entity_id": a match stays when no earlier match
\* of the list has its entity_id
RECURSIVE unique_matches(_, _)
unique_matches(all_matches, k) ==
    IF k > Len(all_matches) THEN <<>>
    ELSE (IF \E j \in 1..(k - 1) :
                all_matches[j].details.entity_id = all_matches[k].details.entity_id
          THEN <<>> ELSE <<all_matches[k]>>)
         \o unique_matches(all_matches, k + 1)

\* the try block over the aggregator: the matches it leaves in all_matches and
\* the requests it issued
opensanctions_block(entity_name, entity_type, n) ==
    LET sanctions_results == search_entities(n.sanctions, n.build)
        default_results == search_entities(n.default, n.build)
        first == _process_opensanctions_results(sanctions_results.value.results,
                                                entity_name, entity_type)
        second == _process_opensanctions_results(default_results.value.results,
                                                 entity_name, entity_type)
    IN  IF sanctions_results.raised
        THEN [matches |-> <<>>, log |-> <<"sanctions">>]
        ELSE IF default_results.raised
        THEN [matches |-> first, log |-> <<"sanctions", "default">>]
        ELSE [matches |-> unique_matches(first \o second, 1),
              log |-> <<"sanctions", "default">>]

\* the body of the loop over the legacy sources, for one source: the matches
\* it appends. An exception inside the body is caught and the loop goes on.
source_matches(entity_name, entity_type, n, source) ==
    LET fetched == fetch_source(source, n[source])
    IN  IF fetched.raised THEN <<>>
        ELSE IF IsEmptyFrame(fetched.value) THEN <<>>
        ELSE _search_entity(entity_name, entity_type, fetched.value, source)

\* time.sleep(1), after the request and the scan of each legacy source
sleep_seconds == 1

\* the seconds slept over a log
Slept(lg) == sleep_seconds * Cardinality({k \in DOMAIN lg : lg[k] = "sleep"})

\* the request of the body and, unless an exception left the body, its sleep
source_log(n, source) ==
    IF fetch_source(source, n[source]).raised THEN <<source>> ELSE <<source, "sleep">>

\* the loop over the legacy sources, from source k on
RECURSIVE legacy_loop(_, _, _, _)
legacy_loop(entity_name, entity_type, n, k) ==
    IF k > Len(LegacySources) THEN <<>>
    ELSE source_matches(entity_name, entity_type, n, LegacySources[k])
         \o legacy_loop(entity_name, entity_type, n, k + 1)

RECURSIVE legacy_log(_, _)
legacy_log(n, k) ==
    IF k > Len(LegacySources) THEN <<>>
    ELSE source_log(n, LegacySources[k]) \o legacy_log(n, k + 1)

\* Every statement that can fail on a response sits in one of the two try
\* blocks, so the call hands back all_matches on every path.
check_single_entity(entity_name, declared_type, n) ==
    LET entity_type == IF declared_type = "auto" THEN _detect_entity_type(entity_name)
                       ELSE declared_type
    IN  [raised |-> FALSE,
         value |-> opensanctions_block(entity_name, entity_type, n).matches
                   \o legacy_loop(entity_name, entity_type, n, 1),
         log |-> opensanctions_block(entity_name, entity_type, n).log \o legacy_log(n, 1)]

----------------------------------------------------------------------------
(* SanctionChecker.check_bulk_entities *)

\* the positions (from 1) of the input entities that are not skipped
NamedPositions(entities) == {p \in 1..Len(entities) : entities[p].name # <<>>}

\* a plausible slip: the declared type taken as it is
M_resolved_type_as_declared(entity) == entity.type

resolved_type(entity) ==
    IF entity.type = "auto" THEN _detect_entity_type(entity.name) ELSE entity.type

\* opensanctions_entities: one entity per named input entity, in input order
RECURSIVE opensanctions_entities(_, _)
opensanctions_entities(entities, p) ==
    IF p > Len(entities) THEN <<>>
    ELSE (IF entities[p].name = <<>> THEN <<>>
          ELSE <<_create_opensanctions_entity(entities[p].name,
                                              resolved_type(entities[p]))>>)
         \o opensanctions_entities(entities, p + 1)

\* entity_mapping: keyed by entity_<i> with i the position in the INPUT list,
\* counted from 0
entity_mapping(entities) ==
    [i \in {p - 1 : p \in NamedPositions(entities)} |->
        [name |-> entities[i + 1].name, type |-> resolved_type(entities[i + 1])]]

\* the match records of one response
bulk_matches(results, entity_name, entity_type) ==
    [k \in 1..Len(results) |->
        SanctionMatch(entity_name, entity_type, "OpenSanctions",
                      IF LessThan(results[k].score, 9, 10) THEN "fuzzy" ELSE "exact",
                      results[k].score, results[k])]

\* the loop over the responses, in the order of their query ids: a later
\* response for the same name replaces the earlier one
bulk_results(responses, mapping) ==
    LET joined == {q \in DOMAIN responses : q \in DOMAIN mapping}
        names == {mapping[q].name : q \in joined}
    IN  [nm \in names |->
            LET last == CHOOSE q \in joined :
                            /\ mapping[q].name = nm
                            /\ \A r \in joined : mapping[r].name = nm => r <= q
            IN  bulk_matches(responses[last], nm, mapping[last].type)]

\* the fallback loop: check_single_entity for every named entity, in input order
RECURSIVE fallback_log(_, _, _)
fallback_log(entities, n, p) ==
    IF p > Len(entities) THEN <<>>
    ELSE (IF entities[p].name = <<>> THEN <<>>
          ELSE <<"check_single_entity">>
               \o check_single_entity(entities[p].name, entities[p].type, n).log)
         \o fallback_log(entities, n, p + 1)

fallback_results(entities, n) ==
    LET named == NamedPositions(entities)
        names == {entities[p].name : p \in named}
    IN  [nm \in names |->
            LET last == CHOOSE p \in named :
                            /\ entities[p].name = nm
                            /\ \A r \in named : entities[r].name = nm => r <= p
            IN  check_single_entity(nm, entities[last].type, n).value]

check_bulk_entities(entities, n) ==
    LET posted == opensanctions_entities(entities, 1)
    IN  IF match_entities(posted, n.match, n.build).raised
        THEN [raised |-> FALSE,
              value |-> fallback_results(entities, n),
              log |-> <<"match">> \o fallback_log(entities, n, 1),
              sent |-> match_queries(posted)]
        ELSE [raised |-> FALSE,
              value |-> bulk_results(match_entities(posted, n.match, n.build).value,
                                     entity_mapping(entities)),
              log |-> <<"match">>,
              sent |-> match_queries(posted)]

----------------------------------------------------------------------------
(* Bounds and the inputs drawn *)

\* hits per search response
MaxHits == 2

\* rows per dataset handed to _search_entity
MaxRows == 2

\* entities per bulk call
MaxEntities == 3

SeqsUpTo(S, n) == UNION {[1..k -> S] : k \in 0..n}

T_ab == <<"a", " ", "b">>

T_abc == <<"a", " ", "b", " ", "c">>

T_abcd == <<"a", " ", "b", " ", "c", " ", "d">>

T_abcda == <<"a", " ", "b", " ", "c", " ", "d", " ", "a">>

T_aba == <<"a", " ", "b", " ", "a">>

T_cba == <<"c", " ", "b", " ", "a">>

T_ABC_bang == <<"A", " ", "B", " ", "C", "!">>

T_AB_bang == <<"A", " ", "B", "!">>

T_b == <<"b">>

T_cd == <<"c", " ", "d">>

SearchOutcomes == {"success", "transport", "status", "auth", "parse"}

FetchOutcomes == {"success", "transport", "status", "parse"}

Builds == {"json_error_is_request_exception", "json_error_is_value_error"}

\* a search hit: id "" stands for a hit without an id (result.get('id', ''))
HitPool ==
    {[id |-> "Q1", caption |-> T_ab, score |-> <<1, 2>>],
     [id |-> "Q1", caption |-> T_abc, score |-> <<19, 20>>],
     [id |-> "", caption |-> T_ab, score |-> <<1, 2>>],
     [id |-> "", caption |-> T_b, score |-> <<3, 4>>]}

HitLists == SeqsUpTo(HitPool, MaxHits)

FixedHits == <<[id |-> "Q1", caption |-> T_ab, score |-> <<19, 20>>],
               [id |-> "Q2", caption |-> T_abc, score |-> <<1, 2>>]>>

\* the body each legacy source answers with in the scenarios over the outcomes
OfacBody ==
    [columns |-> <<"name", "type">>,
     rows |-> <<[name |-> T_ab, type |-> Str_vessel],
                [name |-> T_AB_bang, type |-> Str_person],
                [name |-> T_AB_bang, type |-> Str_vessel]>>]

EuBody ==
    [columns |-> <<"vessel_name", "title">>,
     rows |-> <<[vessel_name |-> NaN, title |-> T_ab],
                [vessel_name |-> T_abc, title |-> NaN]>>]

UnBody == <<T_ab, <<>>, T_aba>>

LegacyBody(source) ==
    CASE source = "OFAC" -> OfacBody
      [] source = "UK" -> OfacBody
      [] source = "EU" -> EuBody
      [] source = "UN" -> UnBody

DownNet ==
    [sanctions |-> [outcome |-> "transport", results |-> <<>>],
     default |-> [outcome |-> "transport", results |-> <<>>],
     build |-> "json_error_is_request_exception",
     match |-> [outcome |-> "transport", scores |-> [q \in 0..MaxEntities |-> <<>>]],
     OFAC |-> [outcome |-> "transport", data |-> OfacBody],
     UK |-> [outcome |-> "transport", data |-> OfacBody],
     EU |-> [outcome |-> "transport", data |-> EuBody],
     UN |-> [outcome |-> "transport", data |-> UnBody]]

\* every combination of outcomes over the two searches and the four sources;
\* the build matters only to a search whose body is no JSON
OutcomeNets ==
    {[DownNet EXCEPT !.sanctions = [outcome |-> o[1], results |-> FixedHits],
                     !.default = [outcome |-> o[2], results |-> FixedHits],
                     !.build = b,
                     !.OFAC.outcome = o[3], !.UK.outcome = o[4],
                     !.EU.outcome = o[5], !.UN.outcome = o[6]] :
        <<o, b>> \in
            {ob \in (FetchOutcomes \X FetchOutcomes \X FetchOutcomes \X FetchOutcomes
                     \X FetchOutcomes \X FetchOutcomes) \X Builds :
                \/ ob[2] = "json_error_is_value_error"
                \/ (ob[1][1] # "parse" /\ ob[1][2] # "parse")}}

\* every pair of hit lists over the two searches, the second search answering
\* well, with 401, or with a body that is no JSON and raises into the caller
HitNets ==
    {[DownNet EXCEPT !.sanctions = [outcome |-> "success", results |-> h1],
                     !.default = [outcome |-> o, results |-> h2],
                     !.build = "json_error_is_value_error"] :
        h1 \in HitLists, h2 \in HitLists, o \in {"success", "auth", "parse"}}

\* the 'sanctions' search answered with 401, the 'default' search with 401 as
\* well or with hits, every legacy source answering well
AuthNets ==
    {[DownNet EXCEPT !.sanctions = [outcome |-> "auth", results |-> FixedHits],
                     !.default = [outcome |-> o, results |-> FixedHits],
                     !.OFAC.outcome = "success", !.UK.outcome = "success",
                     !.EU.outcome = "success", !.UN.outcome = "success"] :
        o \in {"auth", "success"}}

SingleScenarios ==
    ({[op |-> "check_single_entity", name |-> T_ab, type |-> "auto"]} \X OutcomeNets)
    \cup ({[op |-> "check_single_entity", name |-> T_ab, type |-> "vessel"]} \X HitNets)
    \cup ({[op |-> "check_single_entity", name |-> T_ab, type |-> "auto"]} \X AuthNets)

\* the cells of the datasets handed to _search_entity
CellPool == {T_abcd, T_cba, T_ABC_bang, NaN}

Frames ==
    {[columns |-> <<"name", "title">>, rows |-> rows] :
        rows \in SeqsUpTo([name : CellPool, title : {NaN, T_ABC_bang}], MaxRows)}
    \cup {[columns |-> <<"c0">>, rows |-> rows] :
        rows \in SeqsUpTo([c0 : CellPool], MaxRows)}

SearchCalls ==
    {[op |-> "_search_entity", name |-> nm, type |-> t, data |-> df, source |-> "EU"] :
        nm \in {T_abc, T_abcda}, t \in {"vessel", "company"}, df \in Frames}

\* the entities of the bulk calls: a dict without a name is one with name ''
EntityPool ==
    {[name |-> <<>>, type |-> "auto"], [name |-> T_ab, type |-> "auto"],
     [name |-> T_cd, type |-> "vessel"], [name |-> T_b, type |-> "company"]}

EntityLists == SeqsUpTo(EntityPool, MaxEntities) \ {<<>>}

\* the scores the match endpoint answers with, by query id
ScoreScripts ==
    {[q \in 0..MaxEntities |-> <<<<19, 20>>, <<3, 4>>>>],
     [q \in 0..MaxEntities |-> IF q = 0 THEN <<>> ELSE <<<<1, 2>>>>]}

\* the endpoints as the per-entity fallback of a bulk call finds them
FallbackNet ==
    [DownNet EXCEPT !.sanctions = [outcome |-> "success", results |-> FixedHits],
                    !.OFAC.outcome = "success"]

BulkScenarios ==
    {<<[op |-> "check_bulk_entities", entities |-> es],
       [FallbackNet EXCEPT !.match = [outcome |-> o, scores |-> sc], !.build = b]>> :
        es \in EntityLists, o \in FetchOutcomes, sc \in ScoreScripts, b \in Builds}

----------------------------------------------------------------------------
(* The engine holds no state between calls: a behaviour is one call, with its
   arguments and the behaviour of the endpoints drawn when it starts. *)

Init ==
    /\ pc = "idle"
    /\ call = [op |-> "none"]
    /\ net = DownNet
    /\ ret = <<>>
    /\ log = <<>>
    /\ sent = <<>>
    /\ config = DefaultConfig
    /\ checker = __init__(None, DefaultConfig)
    /\ now = 0
    /\ GuiReady

CheckSingleEntity ==
    /\ pc = "idle"
    /\ \E sc \in SingleScenarios :
        \E r \in {check_single_entity(sc[1].name, sc[1].type, sc[2])} :
            /\ call' = sc[1]
            /\ net' = sc[2]
            /\ ret' = r.value
            /\ log' = r.log
            /\ pc' = IF r.raised THEN "raised" ELSE "returned"
            /\ now' = now + Slept(r.log)
            /\ UNCHANGED <<sent, config, checker>>
    /\ UNCHANGED guivars

CheckBulkEntities ==
    /\ pc = "idle"
    /\ \E sc \in BulkScenarios :
        \E r \in {check_bulk_entities(sc[1].entities, sc[2])} :
            /\ call' = sc[1]
            /\ net' = sc[2]
            /\ ret' = r.value
            /\ log' = r.log
            /\ sent' = r.sent
            /\ pc' = IF r.raised THEN "raised" ELSE "returned"
            /\ now' = now + Slept(r.log)
            /\ UNCHANGED <<config, checker>>
    /\ UNCHANGED guivars

SearchEntity ==
    /\ pc = "idle"
    /\ \E c \in SearchCalls :
        /\ call' = c
        /\ ret' = _search_entity(c.name, c.type, c.data, c.source)
        /\ pc' = "returned"
        /\ UNCHANGED <<net, log, sent, config, checker, now>>
    /\ UNCHANGED guivars

Next == CheckSingleEntity \/ CheckBulkEntities \/ SearchEntity

Spec == Init /\ [][Next]_vars

----------------------------------------------------------------------------
(* The engine under a configuration. Config is made from the environment at
   import and __init__ builds the engine from it; then either one dataset is
   fetched again and again while time passes, or one name is checked. *)

\* fetches of one dataset per behaviour
MaxFetches == 2

Configs ==
    [CACHE_DURATION_HOURS : {0, 1, 24}, REQUEST_DELAY_SECONDS : {1, 2}, MAX_RETRIES : {3}]

CacheArguments == {None, Given(2), Given(0), Given(-1)}

\* the answers of the OFAC endpoint to the repeated fetches
OfacResponses ==
    {[outcome |-> "success", data |-> OfacBody], [outcome |-> "transport", data |-> OfacBody]}

\* the aggregator down, each legacy source answering well or not at all
LegacyNets ==
    {[DownNet EXCEPT !.OFAC.outcome = o[1], !.UK.outcome = o[2],
                     !.EU.outcome = o[3], !.UN.outcome = o[4]] :
        o \in {"success", "transport"} \X {"success", "transport"}
              \X {"success", "transport"} \X {"success", "transport"}}

ConfiguredScenarios ==
    {[op |-> "check_single_entity", name |-> T_ab, type |-> "auto"]} \X LegacyNets

ConfiguredInit ==
    /\ pc = "new"
    /\ config \in Configs
    /\ checker = [cache_duration |-> 0]
    /\ call = [op |-> "none"]
    /\ net = DownNet
    /\ ret = <<>>
    /\ log = <<>>
    /\ sent = <<>>
    /\ now = 0
    /\ GuiReady

Construct ==
    /\ pc = "new"
    /\ \E hours \in CacheArguments :
        /\ call' = [op |-> "__init__", cache_duration_hours |-> hours]
        /\ checker' = __init__(hours, config)
    /\ pc' = "idle"
    /\ UNCHANGED <<net, ret, log, sent, config, now>>
    /\ UNCHANGED guivars

\* One call of _fetch_ofac_data, some time after the engine was built or the
\* dataset was last fetched. The function takes no argument and reads no field
\* but session and sanction_sources: it sends its request on every call. The
\* log keeps the requests with their times.
FetchOfacData ==
    /\ pc = "idle"
    /\ call.op \in {"__init__", "_fetch_ofac_data"}
    /\ Len(log) < MaxFetches
    /\ \E wait \in {w \in {1, checker.cache_duration - 1, checker.cache_duration + 1} :
                        w > 0},
          resp \in OfacResponses :
        /\ now' = now + wait
        /\ call' = [op |-> "_fetch_ofac_data", at |-> now + wait]
        /\ net' = [net EXCEPT !.OFAC = resp]
        /\ log' = Append(log, [request |-> "OFAC", at |-> now + wait,
                                outcome |-> resp.outcome])
        /\ ret' = _fetch_ofac_data(resp).value
    /\ UNCHANGED <<pc, sent, config, checker>>
    /\ UNCHANGED guivars

CheckSingleEntityConfigured ==
    /\ pc = "idle"
    /\ call.op = "__init__"
    /\ \E sc \in ConfiguredScenarios :
        \E r \in {check_single_entity(sc[1].name, sc[1].type, sc[2])} :
            /\ call' = sc[1]
            /\ net' = sc[2]
            /\ ret' = r.value
            /\ log' = r.log
            /\ pc' = IF r.raised THEN "raised" ELSE "returned"
            /\ now' = now + Slept(r.log)
            /\ UNCHANGED <<sent, config, checker>>
    /\ UNCHANGED guivars

ConfiguredNext == Construct \/ FetchOfacData \/ CheckSingleEntityConfigured

ConfiguredSpec == ConfiguredInit /\ [][ConfiguredNext]_vars

----------------------------------------------------------------------------
(* What the claims speak of *)

SingleReturned == call.op = "check_single_entity" /\ pc = "returned"

\* the entity type the current single call works with
CallType == IF call.type = "auto" THEN _detect_entity_type(call.name) ELSE call.type

BulkReturned == call.op = "check_bulk_entities" /\ pc = "returned"

SearchReturned == call.op = "_search_entity" /\ pc = "returned"

LegacySet == {LegacySources[k] : k \in 1..Len(LegacySources)}

\* the documented thresholds: exact from 0.9, partial from 0.7 up to 0.9, fuzzy below
DocumentedType(confidence) ==
    IF AtLeast(confidence, 9, 10) THEN "exact"
    ELSE IF AtLeast(confidence, 7, 10) THEN "partial"
    ELSE "fuzzy"

\* the hits of the searches that answered well, in the order of the queries
GoodHits ==
    (IF net.sanctions.outcome = "success" THEN net.sanctions.results ELSE <<>>)
    \o (IF net.default.outcome = "success" THEN net.default.results ELSE <<>>)

\* both searches came back to check_single_entity (neither raised into it)
BothSearchesReturned ==
    /\ ~search_entities(net.sanctions, net.build).raised
    /\ ~search_entities(net.default, net.build).raised

AggregatorPart(matches) == SelectSeq(matches, LAMBDA m : m.sanction_list = "OpenSanctions")

\* the rows a legacy record may come from: the rows of the body of its source
FromBody(m) ==
    IF m.sanction_list = "UN"
    THEN \E k \in 1..Len(net.UN.data) : net.UN.data[k] = m.details.name
    ELSE \E k \in 1..Len(net[m.sanction_list].data.rows) :
            net[m.sanction_list].data.rows[k] = m.details

FromGoodHit(m) ==
    \E k \in 1..Len(GoodHits) :
        /\ GoodHits[k].id = m.details.entity_id
        /\ GoodHits[k].caption = m.details.caption

\* the dedup key of the data model: the native identifier when there is one, the
\* normalized caption or name otherwise (a legacy row has no identifier: its key
\* is the row, cell by cell normalized)
DedupKey(m) ==
    IF m.sanction_list = "OpenSanctions"
    THEN [id |-> m.details.entity_id,
          name |-> IF m.details.entity_id = "" THEN _normalize_text(m.details.caption)
                   ELSE <<>>]
    ELSE [id |-> "",
          name |-> [c \in DOMAIN m.details |->
                      IF m.details[c] = NaN THEN NaN ELSE _normalize_text(m.details[c])]]

\* the records of a list whose dedup key no earlier record of the list has
RECURSIVE FirstOfEachKey(_, _)
FirstOfEachKey(matches, k) ==
    IF k > Len(matches) THEN <<>>
    ELSE (IF \E j \in 1..(k - 1) : DedupKey(matches[j]) = DedupKey(matches[k])
          THEN <<>> ELSE <<matches[k]>>)
         \o FirstOfEachKey(matches, k + 1)

----------------------------------------------------------------------------
(* Claims *)

\* C1: whatever the outcomes of the aggregator searches and of the four legacy
\* sources, check_single_entity returns a list without raising, every record of
\* the list comes from a source that answered well (a row of its body, a hit of a
\* good search), and all four legacy sources are queried, in order, whichever
\* of the sources before them failed.
C1_PartialFailure ==
    (call.op = "check_single_entity" /\ pc # "idle") =>
        /\ pc = "returned"
        /\ \A k \in 1..Len(ret) :
              IF ret[k].sanction_list = "OpenSanctions"
              THEN FromGoodHit(ret[k])
              ELSE /\ ret[k].sanction_list \in LegacySet
                   /\ net[ret[k].sanction_list].outcome = "success"
                   /\ FromBody(ret[k])
        /\ SelectSeq(log, LAMBDA e : e \in LegacySet) = LegacySources

\* C1 witness: three of the four legacy sources fail (one each way), the
\* aggregator is down, OFAC answers well and its two vessel rows both match.
C1_Witness ==
    /\ SingleReturned
    /\ net.sanctions.outcome = "transport" /\ net.default.outcome = "status"
    /\ net.OFAC.outcome = "success"
    /\ net.UK.outcome = "transport" /\ net.EU.outcome = "status" /\ net.UN.outcome = "parse"
    /\ Len(ret) = 2
    /\ \A k \in 1..Len(ret) : ret[k].sanction_list = "OFAC"

\* C2: when the batch-match request fails by a transport error or an error
\* status, check_bulk_entities falls back to one check_single_entity per named
\* entity and the mapping returned has a key for every named input entity.
C2_FallbackOnOutage ==
    (BulkReturned /\ net.match.outcome \in {"transport", "status"}) =>
        /\ Len(SelectSeq(log, LAMBDA e : e = "check_single_entity"))
              = Cardinality(NamedPositions(call.entities))
        /\ \A p \in NamedPositions(call.entities) : call.entities[p].name \in DOMAIN ret

\* C3: in a batch the hits returned for query id k are stored under the name
\* and the type of the entity whose query was sent under id k, also when
\* entities without a name were skipped.
C3_StableQueryIds ==
    (BulkReturned /\ net.match.outcome = "success") =>
        \A nm \in DOMAIN ret : \A k \in 1..Len(ret[nm]) :
            /\ sent[ret[nm][k].details.query_id].properties.name = <<nm>>
            /\ sent[ret[nm][k].details.query_id].schema
                  = _map_entity_type_to_schema(ret[nm][k].entity_type)

\* C4: every record check_single_entity returns has the match_type the
\* documented thresholds give its confidence.
C4_TypeFollowsConfidence ==
    SingleReturned =>
        \A k \in 1..Len(ret) : ret[k].match_type = DocumentedType(ret[k].confidence)

\* C5: every record check_bulk_entities builds from a batch-match hit of score s
\* has the match_type the documented thresholds give s.
C5_BulkTypeFollowsScore ==
    (BulkReturned /\ net.match.outcome = "success") =>
        \A nm \in DOMAIN ret : \A k \in 1..Len(ret[nm]) :
            ret[nm][k].match_type = DocumentedType(ret[nm][k].details.score)

\* C6: on the aggregator path of check_single_entity the confidence of a record
\* is the score the server gave the hit it was built from; a hit of score 0.5 is
\* returned with confidence 0.5 and match_type fuzzy.
C6_ServerScoreIsConfidence ==
    SingleReturned =>
        \A k \in 1..Len(ret) :
            ret[k].sanction_list = "OpenSanctions" =>
                \E h \in 1..Len(GoodHits) :
                    /\ GoodHits[h].id = ret[k].details.entity_id
                    /\ GoodHits[h].caption = ret[k].details.caption
                    /\ SameValue(ret[k].confidence, GoodHits[h].score)
                    /\ (SameValue(GoodHits[h].score, <<1, 2>>) => ret[k].match_type = "fuzzy")


\* the cells of a row that the row scan of the current call looks at
SearchedCells(row) ==
    LET cols == available_columns(call.type, call.data.columns)
    IN  {row[cols[k]] : k \in 1..Len(cols)} \ {NaN}

DetailsOf(matches) == [k \in 1..Len(matches) |-> matches[k].details]

\* the threshold rule alone
OverThreshold(row) ==
    \E cell \in SearchedCells(row) :
        MoreThan(_calculate_similarity(call.name, cell), 7, 10)

\* the rule of the row scan: equal normalized texts, or one inside the other
\* and the similarity over the threshold
EqualOrContainedOverThreshold(row) ==
    \E cell \in SearchedCells(row) :
        \/ _normalize_text(call.name) = _normalize_text(cell)
        \/ /\ \/ Contains(_normalize_text(call.name), _normalize_text(cell))
              \/ Contains(_normalize_text(cell), _normalize_text(call.name))
           /\ MoreThan(_calculate_similarity(call.name, cell), 7, 10)

C8_NoSharedDedupKey ==
    SingleReturned =>
        \A i \in 1..Len(ret) : \A j \in 1..Len(ret) :
            (i < j /\ ret[i].sanction_list = ret[j].sanction_list)
                => DedupKey(ret[i]) # DedupKey(ret[j])

\* C9: the dedup step over the aggregator hits keeps, for each dedup key, the
\* first record with that key and drops the later ones, in input order.
C9_FirstOfEachKeyKept ==
    (SingleReturned /\ BothSearchesReturned) =>
        AggregatorPart(ret)
            = FirstOfEachKey(_process_opensanctions_results(GoodHits, call.name,
                                                            CallType), 1)

\* C10: hits without an id are keyed by their normalized caption: of the hits
\* without an id, the first of each normalized caption is kept, and only it.
C10_CaptionKeyWithoutId ==
    (SingleReturned /\ BothSearchesReturned) =>
        LET kept == SelectSeq(AggregatorPart(ret), LAMBDA m : m.details.entity_id = "")
            captions == {_normalize_text(GoodHits[k].caption) :
                            k \in {h \in 1..Len(GoodHits) : GoodHits[h].id = ""}}
        IN  /\ \A c \in captions :
                  \E k \in 1..Len(kept) : _normalize_text(kept[k].details.caption) = c
            /\ \A i \in 1..Len(kept) : \A j \in 1..Len(kept) :
                  i < j => _normalize_text(kept[i].details.caption)
                              # _normalize_text(kept[j].details.caption)

----------------------------------------------------------------------------
(* The sessions: one request of the program, attempt by attempt, under the
   Retry strategy that _setup_session mounts on the session it is sent over.
   Retry keeps its defaults but for the four arguments given: the Retry-After
   header is respected (on 413, 429 and 503) and an exhausted retry raises. *)

\* Retry(total=3, ...): the retries allowed after the first attempt
total == 3

\* a plausible slip: 404 forced to a retry as well
M_status_forcelist_with_404 == {404, 429, 500, 502, 503, 504}

status_forcelist == {429, 500, 502, 503, 504}

allowed_methods(session) ==
    IF session = "OpenSanctionsAPI" THEN {"HEAD", "GET", "OPTIONS", "POST"}
    ELSE {"HEAD", "GET", "OPTIONS"}

RETRY_AFTER_STATUS_CODES == {413, 429, 503}

\* the requests the program sends: the session, the method, the sender
ProgramRequests ==
    {[op |-> "request", session |-> "SanctionChecker", method |-> "GET",
      by |-> "_fetch_eu_data"],
     [op |-> "request", session |-> "OpenSanctionsAPI", method |-> "GET",
      by |-> "search_entities"],
     [op |-> "request", session |-> "OpenSanctionsAPI", method |-> "POST",
      by |-> "match_entities"]}

\* what one attempt meets: a response with its status and whether it carries a
\* Retry-After header, a failure to connect, or a failure while reading
Answer(kind, status, retry_after) ==
    [kind |-> kind, status |-> status, retry_after |-> retry_after]

Answers ==
    {Answer("response", st, FALSE) : st \in {200, 404, 413, 429, 500}}
    \cup {Answer("response", st, TRUE) : st \in {404, 413}}
    \cup {Answer("connect", 0, FALSE), Answer("read", 0, FALSE)}

\* Retry.is_retry, with `left` retries left: is this response to be retried?
is_retry(method, session, answer, left) ==
    /\ method \in allowed_methods(session)
    /\ \/ answer.status \in status_forcelist
       \/ (left # 0 /\ answer.retry_after /\ answer.status \in RETRY_AFTER_STATUS_CODES)

\* urlopen after one attempt: "retry" sends the request again, "response" hands
\* the response to the sender, "error" raises (the error itself where Retry
\* re-raises it, MaxRetryError when the retries are exhausted)
after_attempt(method, session, answer, left) ==
    CASE answer.kind = "connect" -> IF left = 0 THEN "error" ELSE "retry"
      [] answer.kind = "read" ->
            IF method \notin allowed_methods(session) THEN "error"
            ELSE IF left = 0 THEN "error" ELSE "retry"
      [] answer.kind = "response" ->
            IF is_retry(method, session, answer, left)
            THEN IF left = 0 THEN "error" ELSE "retry"
            ELSE "response"

\* what the sender sees of the request: a good response, one that
\* raise_for_status refuses, or a RequestException
seen_outcome(step, answer) ==
    IF step = "error" THEN "transport"
    ELSE IF answer.status = 200 THEN "success" ELSE "status"

\* what the sender hands back
sender_result(by, outcome) ==
    CASE by = "_fetch_eu_data" -> _fetch_eu_data([outcome |-> outcome, data |-> EuBody])
      [] by = "search_entities" ->
            search_entities([outcome |-> outcome, results |-> FixedHits],
                            "json_error_is_request_exception")
      [] by = "match_entities" ->
            match_entities(<<[name |-> T_ab, type |-> "auto"]>>,
                           [outcome |-> outcome,
                            scores |-> [q \in 0..MaxEntities |-> <<<<1, 2>>>>]],
                           "json_error_is_request_exception")

RetryInit ==
    /\ pc = "idle"
    /\ call = [op |-> "none"]
    /\ net = DownNet
    /\ ret = <<>>
    /\ log = <<>>
    /\ sent = <<>>
    /\ config = DefaultConfig
    /\ checker = __init__(None, DefaultConfig)
    /\ now = 0
    /\ GuiReady

SendRequest ==
    /\ pc = "idle"
    /\ \E request \in ProgramRequests : call' = request
    /\ pc' = "sending"
    /\ UNCHANGED <<net, ret, log, sent, config, checker, now>>
    /\ UNCHANGED guivars

\* one attempt: the log keeps what the attempts met
Attempt ==
    /\ pc = "sending"
    /\ \E answer \in Answers :
        \E step \in {after_attempt(call.method, call.session, answer, total - Len(log))} :
            /\ log' = Append(log, answer)
            /\ IF step = "retry"
               THEN pc' = "sending" /\ ret' = ret
               ELSE /\ pc' = "done"
                    /\ ret' = sender_result(call.by, seen_outcome(step, answer)).value
    /\ UNCHANGED <<call, net, sent, config, checker, now>>
    /\ UNCHANGED guivars

RetryNext == SendRequest \/ Attempt

RetrySpec == RetryInit /\ [][RetryNext]_vars

----------------------------------------------------------------------------
(* The pure helpers on their own: one call of _normalize_text,
   _calculate_similarity or _detect_entity_type per behaviour, over every text
   up to a length. *)

\* the longest text handed to _normalize_text and _detect_entity_type
MaxTextLen == 3

\* the longest text handed to _calculate_similarity
MaxPairLen == 3

\* a lower-case and an upper-case letter, a digit, a blank, the underscore and
\* a punctuation mark
TextAlphabet == {"a", "A", "1", " ", "_", "!"}

Texts == SeqsUpTo(TextAlphabet, MaxTextLen)

PairAlphabet == {"a", "b", " ", "!"}

PairTexts == SeqsUpTo(PairAlphabet, MaxPairLen)

\* names that carry the keywords of _detect_entity_type
KeywordNames ==
    {<<"s", "h", "i", "p", " ", "l", "t", "d">>,
     <<"I", "M", "O", " ", "i", "n", "c">>,
     <<"a", " ", "l", "t", "d">>,
     <<"a", " ", "C", "O", "R", "P">>,
     <<"a", " ", "l", "l", "c">>,
     <<"a", " ", "p", "l", "c">>,
     <<"a", " ", "c", "o", "m", "p", "a", "n", "y">>,
     <<"a", " ", "c", "o", ".">>,
     <<"a", " ", "c", "o">>,
     <<"a", " ", "b", "o", "a", "t">>,
     <<"p", "r", "i", "n", "c", "e", " ", "a">>}

\* the names of the documented examples and of the installation test
N_MV_OCEAN_STAR_VESSEL ==
    <<"M", "V", " ", "O", "C", "E", "A", "N", " ", "S",
      "T", "A", "R", " ", "V", "E", "S", "S", "E", "L">>

N_ACME_CORP_LTD ==
    <<"A", "C", "M", "E", " ", "C", "O", "R", "P", " ",
      "L", "T", "D">>

N_John_Smith ==
    <<"J", "o", "h", "n", " ", "S", "m", "i", "t", "h">>

N_X ==
    <<"X">>

N_EVER_GIVEN ==
    <<"E", "V", "E", "R", " ", "G", "I", "V", "E", "N">>

N_JOHN_SMITH ==
    <<"J", "O", "H", "N", " ", "S", "M", "I", "T", "H">>

N_ACME_CORPORATION ==
    <<"A", "C", "M", "E", " ", "C", "O", "R", "P", "O",
      "R", "A", "T", "I", "O", "N">>

ExampleNames ==
    {N_MV_OCEAN_STAR_VESSEL, N_ACME_CORP_LTD, N_John_Smith, N_X,
     N_EVER_GIVEN, N_JOHN_SMITH, N_ACME_CORPORATION}

TextInit == Init

NormalizeText ==
    /\ pc = "idle"
    /\ \E text \in Texts :
        /\ call' = [op |-> "_normalize_text", text |-> text]
        /\ ret' = _normalize_text(text)
    /\ pc' = "returned"
    /\ UNCHANGED <<net, log, sent, config, checker, now>>
    /\ UNCHANGED guivars

CalculateSimilarity ==
    /\ pc = "idle"
    /\ \E text1 \in PairTexts, text2 \in PairTexts :
        /\ call' = [op |-> "_calculate_similarity", text1 |-> text1, text2 |-> text2]
        /\ ret' = _calculate_similarity(text1, text2)
    /\ pc' = "returned"
    /\ UNCHANGED <<net, log, sent, config, checker, now>>
    /\ UNCHANGED guivars

DetectEntityType ==
    /\ pc = "idle"
    /\ \E entity_name \in Texts \cup KeywordNames \cup ExampleNames :
        /\ call' = [op |-> "_detect_entity_type", entity_name |-> entity_name]
        /\ ret' = _detect_entity_type(entity_name)
    /\ pc' = "returned"
    /\ UNCHANGED <<net, log, sent, config, checker, now>>
    /\ UNCHANGED guivars

TextNext == NormalizeText \/ CalculateSimilarity \/ DetectEntityType

TextSpec == TextInit /\ [][TextNext]_vars

----------------------------------------------------------------------------
(* OpenSanctionsAPI called directly, as test_opensanctions.py calls
   get_catalog: one operation per behaviour, against one scripted response. *)

\* what a request can come to
ApiOutcomes == {"success", "auth", "status", "transport", "timeout", "parse"}

\* the bodies of the good responses
EntityBodies == {[id |-> "Q1", caption |-> T_ab], [id |-> "Q2", caption |-> T_abc]}

Catalogs == {<<>>, <<[name |-> "default"]>>, <<[name |-> "default"], [name |-> "sanctions"]>>}

ApiEntityLists == {<<>>, <<[name |-> T_ab, type |-> "auto"]>>,
                   <<[name |-> T_ab, type |-> "auto"], [name |-> T_cd, type |-> "vessel"]>>}

ApiInit == Init

SearchEntities ==
    /\ pc = "idle"
    /\ \E o \in ApiOutcomes, h \in HitLists, b \in Builds :
        \E r \in {search_entities([outcome |-> o, results |-> h], b)} :
            /\ call' = [op |-> "search_entities", outcome |-> o, build |-> b, body |-> h]
            /\ pc' = IF r.raised THEN "raised" ELSE "returned"
            /\ ret' = IF r.raised THEN <<>> ELSE r.value
    /\ UNCHANGED <<net, log, sent, config, checker, now>>
    /\ UNCHANGED guivars

MatchEntities ==
    /\ pc = "idle"
    /\ \E o \in ApiOutcomes, es \in ApiEntityLists, sc \in ScoreScripts, b \in Builds :
        \E r \in {match_entities(es, [outcome |-> o, scores |-> sc], b)} :
            /\ call' = [op |-> "match_entities", outcome |-> o, build |-> b,
                        body |-> sc, entities |-> es]
            /\ pc' = IF r.raised THEN "raised" ELSE "returned"
            /\ ret' = IF r.raised THEN <<>> ELSE r.value
    /\ UNCHANGED <<net, log, sent, config, checker, now>>
    /\ UNCHANGED guivars

GetEntityDetails ==
    /\ pc = "idle"
    /\ \E o \in ApiOutcomes, e \in EntityBodies, b \in Builds :
        \E r \in {get_entity_details([outcome |-> o, entity |-> e], b)} :
            /\ call' = [op |-> "get_entity_details", outcome |-> o, build |-> b, body |-> e]
            /\ pc' = IF r.raised THEN "raised" ELSE "returned"
            /\ ret' = IF r.raised THEN <<>> ELSE r.value
    /\ UNCHANGED <<net, log, sent, config, checker, now>>
    /\ UNCHANGED guivars

GetCatalog ==
    /\ pc = "idle"
    /\ \E o \in ApiOutcomes, c \in Catalogs, b \in Builds :
        \E r \in {get_catalog([outcome |-> o, datasets |-> c], b)} :
            /\ call' = [op |-> "get_catalog", outcome |-> o, build |-> b, body |-> c]
            /\ pc' = IF r.raised THEN "raised" ELSE "returned"
            /\ ret' = IF r.raised THEN <<>> ELSE r.value
    /\ UNCHANGED <<net, log, sent, config, checker, now>>
    /\ UNCHANGED guivars

ApiNext == SearchEntities \/ MatchEntities \/ GetEntityDetails \/ GetCatalog

ApiSpec == ApiInit /\ [][ApiNext]_vars

----------------------------------------------------------------------------
(* The GUI (src/gui_app.py): the bulk check tab. The Tk main loop runs
   start_bulk_check, stop_bulk_check and check_queue; each bulk check runs in
   a thread of its own, which talks to the main loop through update_queue.
   check_single_entity returns on every path, so a thread sees only how many
   entities it has checked. *)

\* bulk checks started per behaviour
MaxRuns == 2

\* rows of an input file
MaxFileRows == 1

\* the input files: one that cannot be read, one without the name column, and
\* the good ones by their number of rows
Files ==
    {[kind |-> "unreadable", rows |-> 0], [kind |-> "no_name_column", rows |-> 1]}
    \cup {[kind |-> "ok", rows |-> n] : n \in 0..MaxFileRows}

\* what generate_report does with the results
ReportOutcomes == {"saved", "failed"}

\* A bulk check thread: its file, where it stands, and the entities it has
\* checked. stop_pressed is kept for the properties only: Stop was pressed
\* while the thread ran.
Worker(file) ==
    [file |-> file, phase |-> "load", checked |-> 0, stop_pressed |-> FALSE]

GuiInit == Init

\* pressing Start with a file chosen
start_bulk_check ==
    /\ bulk_check_button = "normal"
    /\ Len(workers) < MaxRuns
    /\ \E file \in Files : workers' = Append(workers, Worker(file))
    /\ bulk_check_button' = "disabled"
    /\ stop_button' = "normal"
    /\ UNCHANGED <<stop_requested, update_queue>>
    /\ UNCHANGED enginevars

\* pressing Stop
stop_bulk_check ==
    /\ stop_button = "normal"
    /\ stop_requested' = TRUE
    /\ bulk_check_button' = "normal"
    /\ stop_button' = "disabled"
    /\ update_queue' = Append(update_queue, "bulk_stopped")
    /\ workers' = [k \in DOMAIN workers |->
                     IF workers[k].phase = "done" THEN workers[k]
                     ELSE [workers[k] EXCEPT !.stop_pressed = TRUE]]
    /\ UNCHANGED enginevars

\* _bulk_check_thread up to its loop: the file is read and its rows are made
\* entities
load_file(k) ==
    /\ workers[k].phase = "load"
    /\ IF workers[k].file.kind = "ok"
       THEN /\ update_queue' = Append(update_queue, "bulk_progress")
            /\ workers' = [workers EXCEPT ![k].phase = "loop"]
       ELSE /\ update_queue' = Append(update_queue, "error")
            /\ workers' = [workers EXCEPT ![k].phase = "done"]
    /\ UNCHANGED <<bulk_check_button, stop_button, stop_requested>>
    /\ UNCHANGED enginevars

\* one turn of the loop over the entities: the flag is read, then the entity
\* is checked and its rows are queued
check_next(k) ==
    /\ workers[k].phase = "loop"
    /\ IF workers[k].checked < workers[k].file.rows /\ ~stop_requested
       THEN /\ update_queue' = update_queue \o <<"bulk_progress", "add_result">>
            /\ workers' = [workers EXCEPT ![k].checked = @ + 1]
       ELSE /\ update_queue' = update_queue
            /\ workers' = [workers EXCEPT ![k].phase = "report"]
    /\ UNCHANGED <<bulk_check_button, stop_button, stop_requested>>
    /\ UNCHANGED enginevars

\* after the loop: the report, if there are results
make_report(k) ==
    /\ workers[k].phase = "report"
    /\ IF workers[k].checked > 0
       THEN \E outcome \in ReportOutcomes :
               update_queue' = Append(update_queue,
                                      IF outcome = "saved" THEN "bulk_complete"
                                      ELSE "error")
       ELSE update_queue' = update_queue
    /\ workers' = [workers EXCEPT ![k].phase = "done"]
    /\ UNCHANGED <<bulk_check_button, stop_button, stop_requested>>
    /\ UNCHANGED enginevars

_bulk_check_thread(k) == load_file(k) \/ check_next(k) \/ make_report(k)

\* check_queue with updates waiting: every update is taken and handled; only
\* _handle_bulk_complete touches the buttons
check_queue ==
    /\ update_queue # <<>>
    /\ update_queue' = <<>>
    /\ IF \E j \in DOMAIN update_queue : update_queue[j] = "bulk_complete"
       THEN bulk_check_button' = "normal" /\ stop_button' = "disabled"
       ELSE UNCHANGED <<bulk_check_button, stop_button>>
    /\ UNCHANGED <<stop_requested, workers>>
    /\ UNCHANGED enginevars

GuiNext ==
    \/ start_bulk_check
    \/ stop_bulk_check
    \/ check_queue
    \/ \E k \in DOMAIN workers : _bulk_check_thread(k)

GuiSpec == GuiInit /\ [][GuiNext]_vars

\* Every started thread is scheduled until it ends, and check_queue schedules
\* itself again every 100 ms; the user need never press a button.
GuiFairSpec ==
    /\ GuiSpec
    /\ \A k \in 1..MaxRuns : WF_vars(k \in DOMAIN workers /\ _bulk_check_thread(k))
    /\ WF_vars(check_queue)

----------------------------------------------------------------------------
(* The cache of the legacy datasets *)

FetchedOfac == pc = "idle" /\ call.op = "_fetch_ofac_data"

\* the times of the good fetches before the current query
GoodFetchTimes ==
    {log[k].at : k \in {j \in DOMAIN log : log[j].outcome = "success" /\ log[j].at < call.at}}

RequestedNow == \E k \in DOMAIN log : log[k].at = call.at

\* C11: a dataset fetched well at time T is served from the cache, with no
\* request sent, by every query made less than the cache lifetime after T, and
\* a query made after T plus the lifetime sends a request again.
C11_ServedFromCacheWhileFresh ==
    FetchedOfac =>
        /\ (\E t \in GoodFetchTimes : call.at - t < checker.cache_duration)
               => ~RequestedNow
        /\ (GoodFetchTimes # {} /\ \A t \in GoodFetchTimes :
                                     call.at - t > checker.cache_duration)
               => RequestedNow

----------------------------------------------------------------------------
(* The order of the sources *)

FixedOrder == <<"sanctions", "default", "OFAC", "UK", "EU", "UN">>

\* the requests of a log, without its sleeps
Requests(lg) == SelectSeq(lg, LAMBDA e : e # "sleep")

\* the place of a record's list in the fixed order: the aggregator first
Rank(list) ==
    IF list = "OpenSanctions" THEN 0
    ELSE CHOOSE k \in 1..Len(FixedOrder) : FixedOrder[k] = list

\* aggregator records first, then the legacy records grouped in source order
InSourceOrder(matches) ==
    \A i, j \in DOMAIN matches :
        i < j => Rank(matches[i].sanction_list) <= Rank(matches[j].sanction_list)

\* the 'sanctions' search raised into check_single_entity
SanctionsSearchRaised ==
    net.sanctions.outcome = "parse" /\ net.build = "json_error_is_value_error"

\* C12 (as stated): whatever the name, the type and the outcomes, a call
\* queries 'sanctions', 'default', OFAC, UK, EU, UN, in this order, and the
\* returned list keeps that order.
C12_AllSixInFixedOrder ==
    SingleReturned => Requests(log) = FixedOrder /\ InSourceOrder(ret)

\* C12 (amended): a call queries 'sanctions' first and OFAC, UK, EU, UN last,
\* in this order, with 'default' between them unless the 'sanctions' search
\* raised into the call; the returned list keeps that order.
C12_FixedOrderDefaultUnlessRaised ==
    SingleReturned =>
        /\ Requests(log) = IF SanctionsSearchRaised
                            THEN <<"sanctions", "OFAC", "UK", "EU", "UN">>
                            ELSE FixedOrder
        /\ InSourceOrder(ret)

\* a call that returned aggregator records and records of two legacy lists
C12_Witness ==
    /\ SingleReturned
    /\ Requests(log) = FixedOrder
    /\ AggregatorPart(ret) # <<>>
    /\ \E i, j \in DOMAIN ret :
          /\ ret[i].sanction_list \in LegacySet
          /\ ret[j].sanction_list \in LegacySet
          /\ ret[i].sanction_list # ret[j].sanction_list

----------------------------------------------------------------------------
(* The delay between the legacy sources *)

Sleeps(lg) == Cardinality({k \in DOMAIN lg : lg[k] = "sleep"})

\* C13: on every path of a call, a failed fetch included, the call sleeps
\* between the request to one legacy source and the request to the next, and
\* each of its sleeps lasts the configured delay REQUEST_DELAY_SECONDS.
C13_ConfiguredDelayBetweenSources ==
    SingleReturned =>
        /\ \A i, j \in DOMAIN log :
              (i < j /\ log[i] \in LegacySet /\ log[j] \in LegacySet)
                  => \E k \in (i + 1)..(j - 1) : log[k] = "sleep"
        /\ now = config.REQUEST_DELAY_SECONDS * Sleeps(log)

----------------------------------------------------------------------------
(* The retry policy *)

Requesting == call.op = "request"

\* the attempts of the current request that were followed by another one
RetriedAttempts == IF pc = "sending" THEN DOMAIN log ELSE 1..(Len(log) - 1)

TransportFailure(answer) == answer.kind \in {"connect", "read"}

DocumentedRetryStatus(answer) ==
    answer.kind = "response" /\ answer.status \in {429, 500, 502, 503, 504}

PayloadTooLargeWithRetryAfter(answer) ==
    answer.kind = "response" /\ answer.status = 413 /\ answer.retry_after

\* the parts of the policy that do not depend on which answers are retried:
\* at most three retries, then the request ends; a request that ended in a
\* failure leaves its sender with an empty result; a POST is retried only
\* over the session that lists POST
RetryCapAndDegrade ==
    Requesting =>
        /\ Len(log) <= 4
        /\ (pc = "sending" => Len(log) <= 3)
        /\ (pc = "done" /\ log[Len(log)].status # 200)
              => ret = CASE call.by = "_fetch_eu_data" -> EmptyFrame
                         [] call.by = "search_entities" -> NoResults
                         [] call.by = "match_entities" -> <<>>
        /\ (call.method = "POST" /\ RetriedAttempts # {})
              => call.session = "OpenSanctionsAPI"

\* C14 (as stated): a request whose attempts keep meeting a transport failure
\* or one of the statuses 429, 500, 502, 503, 504 is retried at most 3 times
\* and then ends as a failure that leaves an empty dataset; an attempt that
\* met any other status is never retried; a GET is retried whenever it may
\* be, a POST only over a session that marks POST as retryable.
C14_OnlyListedStatusesRetried ==
    /\ RetryCapAndDegrade
    /\ Requesting =>
          /\ \A k \in RetriedAttempts :
                TransportFailure(log[k]) \/ DocumentedRetryStatus(log[k])
          /\ (pc = "done" /\ call.method = "GET"
                /\ (TransportFailure(log[Len(log)]) \/ DocumentedRetryStatus(log[Len(log)])))
                => Len(log) = 4

\* C14 (amended): as stated, but a 413 that carries a Retry-After header is
\* retried as well, under the same cap; every other status is never retried.
C14_ListedStatusesAndRetryAfterRetried ==
    /\ RetryCapAndDegrade
    /\ Requesting =>
          /\ \A k \in RetriedAttempts :
                \/ TransportFailure(log[k])
                \/ DocumentedRetryStatus(log[k])
                \/ PayloadTooLargeWithRetryAfter(log[k])
          /\ (pc = "done" /\ call.method = "GET"
                /\ \/ TransportFailure(log[Len(log)])
                   \/ DocumentedRetryStatus(log[Len(log)])
                   \/ PayloadTooLargeWithRetryAfter(log[Len(log)]))
                => Len(log) = 4

\* a fetch whose four attempts all failed, a 413 with Retry-After among the
\* retried ones, and that left an empty dataset
C14_Witness ==
    /\ Requesting /\ pc = "done" /\ call.by = "_fetch_eu_data"
    /\ Len(log) = 4
    /\ \E k \in 1..3 : PayloadTooLargeWithRetryAfter(log[k])
    /\ DocumentedRetryStatus(log[4])
    /\ ret = EmptyFrame

----------------------------------------------------------------------------
(* A 401 from the aggregator *)

\* C15: when the first search of the aggregator is answered with 401, the
\* call sends no further request to the aggregator and returns no aggregator
\* record, and it still queries OFAC, UK, EU and UN.
C15_AggregatorSkippedAfter401 ==
    (SingleReturned /\ net.sanctions.outcome = "auth") =>
        /\ \A k \in DOMAIN log : log[k] # "default"
        /\ AggregatorPart(ret) = <<>>
        /\ SelectSeq(log, LAMBDA e : e \in LegacySet) = LegacySources

----------------------------------------------------------------------------
(* Normalization *)

Normalized == pc = "returned" /\ call.op = "_normalize_text"

\* C16: normalizing a normalized text changes nothing, for every text over
\* letters, digits, blanks, the underscore and punctuation ('a !' included).
C16_NormalizeIdempotent ==
    Normalized => _normalize_text(ret) = ret

\* C17: the normalized text holds only lower-case letters, digits and blanks
\* (no underscore), neither starts nor ends with a blank, and is empty for the
\* empty text.
C17_NormalizedAlphabetAndTrim ==
    Normalized =>
        /\ \A k \in DOMAIN ret :
              ret[k] \in LowerLetters \cup Digits \cup Whitespace
        /\ (ret # <<>> => ~IsSpace(ret[1]) /\ ~IsSpace(ret[Len(ret)]))
        /\ (call.text = <<>> => ret = <<>>)

----------------------------------------------------------------------------
(* Similarity *)

Scored == pc = "returned" /\ call.op = "_calculate_similarity"

\* the reference computation: 1.0 for equal normalized texts, 0.0 when a text
\* has no word, the Jaccard index of the two sets of words otherwise
ReferenceScore(a, b) ==
    LET wordsA == SplitSet(_normalize_text(a))
        wordsB == SplitSet(_normalize_text(b))
    IN  IF _normalize_text(a) = _normalize_text(b) THEN <<1, 1>>
        ELSE IF wordsA = {} \/ wordsB = {} THEN <<0, 1>>
        ELSE <<Cardinality(wordsA \cap wordsB), Cardinality(wordsA \cup wordsB)>>

\* C18 (as stated): for all pairs of texts the similarity is the reference
\* score, which is 1.0 whenever the two normalized texts are equal, both being
\* empty included.
C18_EqualsReference ==
    Scored => SameValue(ret, ReferenceScore(call.text1, call.text2))

\* C18 (amended): the similarity is 0.0 when one of the two texts is empty,
\* and the reference score for every pair of non-empty texts.
C18_EqualsReferenceUnlessEmptyInput ==
    Scored =>
        IF call.text1 = <<>> \/ call.text2 = <<>> THEN SameValue(ret, <<0, 1>>)
        ELSE SameValue(ret, ReferenceScore(call.text1, call.text2))

\* two different non-empty texts that both normalize to the empty text
C18_Witness ==
    /\ Scored
    /\ call.text1 # <<>> /\ call.text2 # <<>> /\ call.text1 # call.text2
    /\ _normalize_text(call.text1) = <<>> /\ _normalize_text(call.text2) = <<>>
    /\ SameValue(ret, <<1, 1>>)

\* C19: the similarity lies in [0, 1], is the same for (a, b) and (b, a), and
\* is 1.0 for (a, a) for every non-empty a, one that normalizes to the empty
\* text included.
C19_SymmetricReflexive ==
    Scored =>
        /\ 0 <= ret[1] /\ ret[1] <= ret[2] /\ ret[2] > 0
        /\ SameValue(ret, _calculate_similarity(call.text2, call.text1))
        /\ (call.text1 = call.text2 /\ call.text1 # <<>>) => SameValue(ret, <<1, 1>>)

\* two texts that share some of their words, not all
C19_Witness ==
    /\ Scored
    /\ ret[1] > 0 /\ ret[1] < ret[2]
    /\ Cardinality(SplitSet(_normalize_text(call.text1)))
          # Cardinality(SplitSet(_normalize_text(call.text2)))

----------------------------------------------------------------------------
(* Detection of the entity type *)

Detected == pc = "returned" /\ call.op = "_detect_entity_type"

\* the lower-cased name contains one of the keywords
HasAny(keywords, name) == \E k \in keywords : Contains(k, Lower(name))

VesselKeywords == {vessel_indicators[k] : k \in DOMAIN vessel_indicators}

FiveSuffixes ==
    {<<"l", "t", "d">>, <<"i", "n", "c">>, <<"c", "o", "r", "p">>,
     <<"l", "l", "c">>, <<"p", "l", "c">>}

SevenSuffixes == FiveSuffixes \cup {<<"c", "o", "m", "p", "a", "n", "y">>, <<"c", "o", ".">>}

\* the first rule that matches, the company rule over the given suffixes
FirstRule(name, suffixes) ==
    IF HasAny(VesselKeywords, name) THEN "vessel"
    ELSE IF HasAny(suffixes, name) THEN "company"
    ELSE IF SplitCount(name) >= 2 /\ ~\E i \in DOMAIN name : name[i] \in Digits
    THEN "person"
    ELSE "vessel"

\* C20 (as stated): the type is that of the first matching rule among vessel
\* keyword, company suffix (ltd, inc, corp, llc, plc), two or more words and no
\* digit (person), vessel otherwise; a name with a vessel keyword and a company
\* suffix is a vessel, and a name with none of the five suffixes is never a
\* company.
C20_FirstRuleFiveSuffixes ==
    Detected =>
        /\ ret = FirstRule(call.entity_name, FiveSuffixes)
        /\ (HasAny(VesselKeywords, call.entity_name)
              /\ HasAny(FiveSuffixes, call.entity_name)) => ret = "vessel"
        /\ ~HasAny(FiveSuffixes, call.entity_name) => ret # "company"

\* C20 (amended): the same rules in the same order, the company rule over
\* seven keywords: ltd, inc, corp, company, co., llc, plc.
C20_FirstRuleSevenSuffixes ==
    Detected =>
        /\ ret = FirstRule(call.entity_name, SevenSuffixes)
        /\ (HasAny(VesselKeywords, call.entity_name)
              /\ HasAny(SevenSuffixes, call.entity_name)) => ret = "vessel"
        /\ ~HasAny(SevenSuffixes, call.entity_name) => ret # "company"

\* a name with a vessel keyword and a company suffix
C20_Witness ==
    /\ Detected
    /\ HasAny(VesselKeywords, call.entity_name)
    /\ HasAny(FiveSuffixes, call.entity_name)
    /\ ret = "vessel"

----------------------------------------------------------------------------
(* The examples of the detection *)

DetectedFor(name) == Detected /\ call.entity_name = name

\* C21: 'MV OCEAN STAR VESSEL' is a vessel, 'ACME CORP LTD' a company,
\* 'John Smith' a person, and the one-word name 'X' a vessel by the last rule.
C21_DocumentedExamples ==
    /\ DetectedFor(N_MV_OCEAN_STAR_VESSEL) => ret = "vessel"
    /\ DetectedFor(N_ACME_CORP_LTD) => ret = "company"
    /\ DetectedFor(N_John_Smith) => ret = "person"
    /\ DetectedFor(N_X) => ret = "vessel"

\* the one-word name, detected
C21_Witness == DetectedFor(N_X) /\ ret = "vessel"

\* C22: the names of the installation test are detected as the test labels
\* them: 'EVER GIVEN' a vessel, 'JOHN SMITH' a person, 'ACME CORPORATION' a
\* company.
C22_InstallationTestLabels ==
    /\ DetectedFor(N_EVER_GIVEN) => ret = "vessel"
    /\ DetectedFor(N_JOHN_SMITH) => ret = "person"
    /\ DetectedFor(N_ACME_CORPORATION) => ret = "company"

----------------------------------------------------------------------------
(* An invalid cache lifetime *)

\* the engine has served a query
UsedForQuery == call.op \in {"_fetch_ofac_data", "check_single_entity"}

\* C23: a cache lifetime of zero or fewer hours makes the construction fail:
\* no engine serves a query under a configuration that does not validate or
\* with a cache_duration that is not positive, and none is built with a
\* cache_duration that differs from the lifetime given as an argument.
C23_InvalidTtlFailsConstruction ==
    /\ UsedForQuery => validate_config(config) /\ checker.cache_duration > 0
    /\ (call.op = "__init__" /\ call.cache_duration_hours.given)
          => checker.cache_duration = 3600 * call.cache_duration_hours.value

----------------------------------------------------------------------------
(* The entity type of the records *)

EntityTypes == {"vessel", "person", "company"}

\* the type a declared type stands for, for a name
TypeFor(name, declared) ==
    IF declared = "auto" THEN _detect_entity_type(name) ELSE declared

\* C24: every record a single or a bulk call returns carries a type among
\* vessel, person and company: the declared type of its entity, or the type
\* detected from the name when 'auto' was declared; no record carries 'auto'.
C24_TypeResolvedOnce ==
    /\ SingleReturned =>
          \A k \in DOMAIN ret :
              /\ ret[k].entity_type \in EntityTypes
              /\ ret[k].entity_type = TypeFor(call.name, call.type)
    /\ BulkReturned =>
          \A nm \in DOMAIN ret : \A k \in DOMAIN ret[nm] :
              /\ ret[nm][k].entity_type \in EntityTypes
              /\ \E p \in NamedPositions(call.entities) :
                    /\ call.entities[p].name = nm
                    /\ ret[nm][k].entity_type = TypeFor(nm, call.entities[p].type)

\* a bulk call that returned records for an entity declared 'auto'
C24_Witness ==
    /\ BulkReturned
    /\ net.match.outcome = "success"
    /\ \E nm \in DOMAIN ret :
          /\ ret[nm] # <<>>
          /\ \E p \in NamedPositions(call.entities) :
                call.entities[p].name = nm /\ call.entities[p].type = "auto"

----------------------------------------------------------------------------
(* The bulk check of the GUI *)

\* C25: a bulk check during which Stop was not pressed checks every entity of
\* its file, also when Stop was pressed during an earlier bulk check.
C25_StopAffectsRunningCheckOnly ==
    \A k \in DOMAIN workers :
        (workers[k].phase = "done" /\ workers[k].file.kind = "ok"
            /\ ~workers[k].stop_pressed)
            => workers[k].checked = workers[k].file.rows

\* C26: after a bulk check was started and its button disabled, the start
\* button is enabled again, whatever the outcome of the thread.
C26_StartButtonEnabledAgain ==
    [](bulk_check_button = "disabled" => <>(bulk_check_button = "normal"))

----------------------------------------------------------------------------
(* The batch call that returned *)

\* match_entities returned to check_bulk_entities: the endpoint answered, or
\* the failure of the request was absorbed
MatchReturnedNormally ==
    \/ net.match.outcome \in {"success", "transport", "status"}
    \/ net.match.outcome = "parse" /\ JsonErrorAbsorbed(net.build)

\* the query ids of the responses handed back
AnsweredIds == IF net.match.outcome = "success" THEN DOMAIN sent ELSE {}

\* the names entity_mapping has for the answered query ids
AnsweredNames ==
    {call.entities[p].name : p \in {r \in NamedPositions(call.entities) : r - 1 \in AnsweredIds}}

----------------------------------------------------------------------------
(* The UK list *)

\* C30: _fetch_uk_data hands back a dataset without rows whatever the
\* response, and check_single_entity returns no record of the 'UK' list.
C30_UkNeverContributes ==
    SingleReturned =>
        /\ ~_fetch_uk_data(net.UK).raised
        /\ _fetch_uk_data(net.UK).value.rows = <<>>
        /\ \A k \in 1..Len(ret) : ret[k].sanction_list # "UK"

\* the UK source was asked and answered well, with the body that gives OFAC
\* its records
C30_Witness ==
    /\ SingleReturned
    /\ \E j \in DOMAIN log : log[j] = "UK"
    /\ net.UK.outcome = "success" /\ net.OFAC.outcome = "success"
    /\ net.UK.data = net.OFAC.data
    /\ \E k \in 1..Len(ret) : ret[k].sanction_list = "OFAC"

----------------------------------------------------------------------------
(* The records of the legacy scan *)

\* the row is the details of some record
Emitted(row) == \E k \in 1..Len(ret) : ret[k].details = row

\* C29: every record of _search_entity has a confidence over 0.7 and the
\* match_type 'exact' or 'partial'; an 'exact' one has confidence 1.0; and the
\* records are those of distinct rows, in row order: no row gives two records,
\* however many of its searched columns match.
C29_LegacyRecordShape ==
    SearchReturned =>
        /\ \A k \in 1..Len(ret) :
              /\ MoreThan(ret[k].confidence, 7, 10)
              /\ ret[k].match_type \in {"exact", "partial"}
              /\ ret[k].match_type = "exact" => SameValue(ret[k].confidence, One)
        /\ DetailsOf(ret) = SelectSeq(call.data.rows, Emitted)

\* a row whose two searched columns both equal the name gives one exact record
C29_Witness ==
    /\ SearchReturned
    /\ call.name = T_abc
    /\ call.data.rows = <<[name |-> T_ABC_bang, title |-> T_ABC_bang]>>
    /\ Len(ret) = 1
    /\ ret[1].match_type = "exact"
    /\ ret[1].confidence = One

----------------------------------------------------------------------------
(* The aggregator's operations on a failed request *)

\* the request of the call failed: no response, or one with an error status
RequestFailed == call.outcome \in {"transport", "timeout", "status", "auth"}

\* C28: on a request failure (transport error, timeout, error status) each
\* operation of OpenSanctionsAPI returns, and returns its empty value:
\* search_entities no results and total 0, match_entities no responses,
\* get_entity_details None, get_catalog no datasets.
C28_FailureAbsorbed ==
    (call.op \in {"search_entities", "match_entities", "get_entity_details", "get_catalog"}
        /\ RequestFailed) =>
        /\ pc = "returned"
        /\ call.op = "search_entities" => ret.results = <<>> /\ ret.total.value = 0
        /\ call.op = "match_entities" => DOMAIN ret = {}
        /\ call.op = "get_entity_details" => ret = None
        /\ call.op = "get_catalog" => ret.datasets = <<>>

\* a search whose request timed out, with hits waiting on the server
C28_Witness ==
    /\ call.op = "search_entities"
    /\ call.outcome = "timeout"
    /\ call.body # <<>>
    /\ pc = "returned"
    /\ ret = NoResults

====
